---- MODULE Spec2Model ----
(***************************************************************************)
(* Model of the dialogflow-webhook repository.                             *)
(*                                                                         *)
(*  - the intake handler  POST /api/webhook  (src/api/webhook.js and its   *)
(*    variant src/unnamed/part_000): extraction, validation, persistence,  *)
(*    notification;                                                        *)
(*  - the FAQ handler  POST /webhook  and the facility cache fetchCenters  *)
(*    (src/src/index.js).                                                  *)
(*                                                                         *)
(* JavaScript strings are sequences of atoms.  An atom is a single         *)
(* character; the fixed texts of the program are written with multi-       *)
(* character atoms wherever no regular expression and no trim of the       *)
(* program is applied to them.                                             *)
(***************************************************************************)
EXTENDS Integers, Sequences, FiniteSets, TLC

VARIABLES
    reqs,           \* intake requests: id -> request record
    sheet,          \* rows appended to the spreadsheet (external collaborator)
    outbox,         \* mails handed to the mail transport (external collaborator)
    now,            \* Date.now(), in milliseconds
    ticks,          \* number of clock advances so far
    cachedCenters,  \* index.js module state: Null or the cached mapping object
    lastFetchTime,  \* index.js module state: Null or a Date.now() value
    nextObj,        \* identity given to the next object literal created by a refresh
    calls,          \* invocations of fetchCenters: id -> call record
    freqs,          \* FAQ requests: id -> request record
    limiter,        \* the rate limiter of /webhook: hits per client, next reset
    clients,        \* per client: what became of its requests in this window
    health,         \* the last response of GET /health
    vin,            \* the value a validator is called with
    vout            \* the call of a validator on vin and what it returned

vars == <<reqs, sheet, outbox, now, ticks, cachedCenters, lastFetchTime,
          nextObj, calls, freqs, limiter, clients, health, vin, vout>>

intakeVars == <<reqs, sheet, outbox>>
frontVars == <<limiter, clients, health>>
pureVars == <<vin, vout>>
faqVars == <<now, ticks, cachedCenters, lastFetchTime, nextObj, calls, freqs>>

----------------------------------------------------------------------------
(* Characters and strings *)

Letters == {"a", "b", "c", "d", "e", "f", "g", "h", "i", "j", "k", "l", "m",
            "n", "o", "p", "q", "r", "s", "t", "u", "v", "w", "x", "y", "z",
            "A", "B", "C", "D", "E", "F", "G", "H", "I", "J", "K", "L", "M",
            "N", "O", "P", "Q", "R", "S", "T", "U", "V", "W", "X", "Y", "Z"}

\* the characters the regular-expression class \s and String.prototype.trim strip
WhiteSpace == {" ", "\t", "\n", "\r"}

IsSpace(c) == c \in WhiteSpace

IsLetter(c) == c \in Letters

\* String.prototype.trim: white space removed at both ends
RECURSIVE TrimLeft(_)
TrimLeft(s) ==
    IF s = <<>> THEN <<>>
    ELSE IF IsSpace(Head(s)) THEN TrimLeft(Tail(s)) ELSE s

RECURSIVE TrimRight(_)
TrimRight(s) ==
    IF s = <<>> THEN <<>>
    ELSE IF IsSpace(s[Len(s)]) THEN TrimRight(SubSeq(s, 1, Len(s) - 1)) ELSE s

Trim(s) == TrimRight(TrimLeft(s))

\* s.split(/\s+/).filter(part => part.length > 0).length: the number of
\* maximal runs of non-white-space characters
NamePartsCount(s) ==
    Cardinality({i \in 1..Len(s) :
                    /\ ~IsSpace(s[i])
                    /\ (i = 1 \/ IsSpace(s[i - 1]))})

\* /^[A-Za-z\s]+$/.test(s)
OnlyLettersAndSpaces(s) ==
    /\ Len(s) >= 1
    /\ \A i \in 1..Len(s) : IsLetter(s[i]) \/ IsSpace(s[i])

\* the class [^\s@]
NotSpaceNotAt(c) == ~IsSpace(c) /\ c # "@"

\* /^[^\s@]+@[^\s@]+\.[^\s@]+$/.test(s)
EmailShape(s) ==
    \E i \in 1..Len(s) : \E j \in 1..Len(s) :
        /\ 1 < i /\ i + 1 < j /\ j < Len(s)
        /\ s[i] = "@" /\ s[j] = "."
        /\ \A k \in 1..Len(s) : (k # i) => NotSpaceNotAt(s[k])

----------------------------------------------------------------------------
(* JavaScript values of the request body.  Every value is a record         *)
(*   t   : its type tag ("undefined", "null", "string", "number", "object") *)
(*   s   : the characters of a string; for an object, of its name          *)
(*         sub-field when that is a string                                 *)
(*   n   : the value of a number; for an object, of its name sub-field     *)
(*         when that is a number                                           *)
(*   sub : for an object, the type of its name sub-field                   *)

Undefined == [t |-> "undefined", s |-> <<>>, n |-> 0, sub |-> "undefined"]
Null == [t |-> "null", s |-> <<>>, n |-> 0, sub |-> "undefined"]
Str(s) == [t |-> "string", s |-> s, n |-> 0, sub |-> "undefined"]
Num(n) == [t |-> "number", s |-> <<>>, n |-> n, sub |-> "undefined"]
ObjName(s) == [t |-> "object", s |-> s, n |-> 0, sub |-> "string"]
ObjNameNum(n) == [t |-> "object", s |-> <<>>, n |-> n, sub |-> "number"]
ObjEmpty == [t |-> "object", s |-> <<>>, n |-> 0, sub |-> "undefined"]

\* typeof v
TypeOf(v) == IF v.t = "null" THEN "object" ELSE v.t

\* typeof v.name, for an object v
TypeOfName(v) == v.sub

\* JavaScript truthiness, as used by ||, ! and if
Truthy(v) ==
    CASE v.t = "undefined" -> FALSE
      [] v.t = "null" -> FALSE
      [] v.t = "string" -> v.s # <<>>
      [] v.t = "number" -> v.n # 0
      [] OTHER -> TRUE

Digits == <<"0", "1", "2", "3", "4", "5", "6", "7", "8", "9">>

\* the decimal digits of a natural number
RECURSIVE NumStr(_)
NumStr(n) ==
    IF n < 10 THEN <<Digits[n + 1]>>
    ELSE NumStr(n \div 10) \o <<Digits[(n % 10) + 1]>>

ObjectObject == <<"[", "o", "b", "j", "e", "c", "t", " ",
                  "O", "b", "j", "e", "c", "t", "]">>

\* String(v)
ToStr(v) ==
    CASE v.t = "undefined" -> <<"u", "n", "d", "e", "f", "i", "n", "e", "d">>
      [] v.t = "null" -> <<"n", "u", "l", "l">>
      [] v.t = "string" -> v.s
      [] v.t = "number" -> NumStr(v.n)
      [] OTHER -> ObjectObject

\* v || ''
OrEmpty(v) == IF Truthy(v) THEN v ELSE Str(<<>>)

----------------------------------------------------------------------------
(* Field validators (webhook.js 26-64, part_000 23-63) *)

\* a variant of isValidName that accepts two words only
isValidNameTwoWords(v) ==
    IF TypeOf(v) # "string" THEN FALSE
    ELSE LET trimmedName == Trim(v.s)
         IN  OnlyLettersAndSpaces(trimmedName) /\ NamePartsCount(trimmedName) = 2

\* isValidName(name)
isValidName(v) ==
    IF TypeOf(v) # "string" THEN FALSE
    ELSE LET trimmedName == Trim(v.s)
         IN  OnlyLettersAndSpaces(trimmedName) /\ NamePartsCount(trimmedName) >= 2

\* isValidEmail(email)
isValidEmail(v) ==
    IF TypeOf(v) # "string" THEN FALSE
    ELSE EmailShape(Trim(v.s))

\* What the phone library does with one string: phoneUtil.parse throws, or
\* it parses and phoneUtil.isValidNumber answers true, answers false or throws.
\* The library is an external collaborator: every outcome is possible.
LibOutcomes == {"valid", "invalid", "parse_throws", "validate_throws"}

\* a variant of isValidPhoneNumber whose catch block accepts the number
isValidPhoneNumberFailOpen(v, lib) ==
    IF TypeOf(v) # "string" THEN FALSE
    ELSE IF lib \in {"parse_throws", "validate_throws"} THEN TRUE
    ELSE lib = "valid"

\* isValidPhoneNumber(phone), the library answering lib
isValidPhoneNumber(v, lib) ==
    IF TypeOf(v) # "string" THEN FALSE
    ELSE IF lib \in {"parse_throws", "validate_throws"} THEN FALSE
    ELSE lib = "valid"

----------------------------------------------------------------------------
(* Intake handler: extraction (webhook.js 148-154, part_000 152-158) *)

\* a variant of ExtractName that forgets to trim the nested name
ExtractNameNoNestedTrim(nameParam) ==
    IF TypeOf(nameParam) = "object" /\ nameParam.t # "null"
       /\ TypeOfName(nameParam) = "string"
    THEN ToStr(Str(nameParam.s))
    ELSE Trim(ToStr(OrEmpty(nameParam)))

\* const name = typeof nameParam === 'object' && nameParam !== null &&
\*              typeof nameParam.name === 'string'
\*                ? String(nameParam.name).trim() : String(nameParam || '').trim()
ExtractName(nameParam) ==
    IF TypeOf(nameParam) = "object" /\ nameParam.t # "null"
       /\ TypeOfName(nameParam) = "string"
    THEN Trim(ToStr(Str(nameParam.s)))
    ELSE Trim(ToStr(OrEmpty(nameParam)))

\* a variant of ExtractField that forgets to trim
ExtractFieldNoTrim(param) == ToStr(OrEmpty(param))

\* String(params[key] || '').trim(), for email and phone-number
ExtractField(param) == Trim(ToStr(OrEmpty(param)))

----------------------------------------------------------------------------
(* Intake handler: responses *)

NoResponse == [status |-> 0, event |-> "", text |-> <<>>]

MissingText ==
    <<"I seem to be missing some information. Could you please provide your full name, email address, and phone number?">>

\* res.json with the missing-field directive (webhook.js 160-166)
MissingResponse ==
    [status |-> 200, event |-> "collect_user_info", text |-> MissingText]

NamePhrase == "your full name (at least two names)"
EmailPhrase == "a valid email address"
PhonePhrase == "a valid phone number"

\* a variant of InvalidFieldsList with the email and phone conditions swapped
InvalidFieldsListSwapped(nameValid, emailValid, phoneValid) ==
    (IF ~nameValid THEN <<NamePhrase, ",", " ">> ELSE <<>>)
    \o (IF ~phoneValid THEN <<EmailPhrase, ",", " ">> ELSE <<>>)
    \o (IF ~emailValid THEN <<PhonePhrase, ",", " ">> ELSE <<>>)

\* the list of failed fields before the trailing separator is replaced
\* (webhook.js 177-180)
InvalidFieldsList(nameValid, emailValid, phoneValid) ==
    (IF ~nameValid THEN <<NamePhrase, ",", " ">> ELSE <<>>)
    \o (IF ~emailValid THEN <<EmailPhrase, ",", " ">> ELSE <<>>)
    \o (IF ~phoneValid THEN <<PhonePhrase, ",", " ">> ELSE <<>>)

\* a match of /,\s*$/ starting at position i (webhook.js 182)
MatchCommaSpaces(s, i) ==
    /\ s[i] = ","
    /\ \A k \in (i + 1)..Len(s) : IsSpace(s[k])

\* a match of /,\\s*$/ starting at position i (part_000 186): a comma, one
\* backslash, then any number of letters s
MatchCommaBackslashEsses(s, i) ==
    /\ s[i] = ","
    /\ i + 1 <= Len(s)
    /\ s[i + 1] = "\\"
    /\ \A k \in (i + 2)..Len(s) : s[k] = "s"

\* the positions where the variant's regular expression matches up to the end
TrailingMatches(v, s) ==
    {i \in 1..Len(s) :
        IF v = "webhook" THEN MatchCommaSpaces(s, i)
        ELSE MatchCommaBackslashEsses(s, i)}

\* invalidFieldsMessage.replace(<regex>, '.'): the leftmost match, which
\* runs to the end of the string, is replaced by a full stop
ReplaceTrailingSeparator(v, s) ==
    LET m == TrailingMatches(v, s)
    IN  IF m = {} THEN s
        ELSE LET i == CHOOSE x \in m : \A y \in m : x <= y
             IN  SubSeq(s, 1, i - 1) \o <<".">>

InvalidPrefix == "The information you provided for "
InvalidSuffix ==
    " is not in a valid format. Could you please double-check and provide it again? For your name, please ensure you provide at least your first and last name. For the phone number, please ensure it's a valid international format."

\* res.json with the invalid-field directive (webhook.js 175-191)
InvalidResponse(v, nameValid, emailValid, phoneValid) ==
    [status |-> 200,
     event |-> "collect_user_info",
     text |-> <<InvalidPrefix>>
              \o ReplaceTrailingSeparator(v,
                     InvalidFieldsList(nameValid, emailValid, phoneValid))
              \o <<InvalidSuffix>>]

\* res.json with the success directive (webhook.js 197-202)
SuccessResponse ==
    [status |-> 200, event |-> "trigger-booking-intent", text |-> <<>>]

ApologyText ==
    <<"I'm sorry, I encountered an error while processing your information. Please try again later.">>

\* res.status(500).json with the apology (webhook.js 205-207)
ErrorResponse == [status |-> 500, event |-> "", text |-> ApologyText]

\* What the web framework does when the async handler's promise rejects
\* outside the handler's own try/catch: Express 4 leaves the rejection
\* unhandled and sends nothing; Express 5 passes it to the default error
\* handler, which answers 500 with no Dialogflow payload.
FrameworkOutcomes == {"unhandled", "framework500"}

FrameworkErrorResponse(fw) ==
    IF fw = "framework500"
    THEN [status |-> 500, event |-> "", text |-> <<"Internal Server Error">>]
    ELSE NoResponse

----------------------------------------------------------------------------
(* Intake handler: requests *)

\* one intake request is modelled from its arrival to its response
Requests == {1}

\* the intake files: src/api/webhook.js and src/unnamed/part_000
Variants == {"webhook", "part_000"}

\* shapes of req.body: with queryResult.parameters, without queryResult,
\* with a queryResult that has no parameters
BodyShapes == {"ok", "noQueryResult", "noParameters"}

MakeBody(shape, fullname, email, phone) ==
    [shape |-> shape, fullname |-> fullname, email |-> email, phone |-> phone]

NameStrings == {<<>>, <<" ">>, <<" ", "a", " ", "b", " ">>, <<"a", "b">>}

FullnameValues ==
    {Undefined, Null, Num(42), ObjEmpty, ObjNameNum(42)}
    \cup {Str(s) : s \in NameStrings}
    \cup {ObjName(s) : s \in NameStrings}

EmailValues ==
    {Undefined, Null, Str(<<>>), Str(<<" ", " ">>),
     Str(<<"a", "@", "b", ".", "c", " ">>), Str(<<"a", "@", "b">>), Num(42)}

PhoneValues ==
    {Undefined, Null, Str(<<>>), Str(<<"\t">>), Str(<<"+", "1", "2">>), Num(12)}

Bodies ==
    {MakeBody("ok", f, e, p) :
        f \in FullnameValues, e \in EmailValues, p \in PhoneValues}
    \cup {MakeBody(sh, Undefined, Undefined, Undefined) :
            sh \in BodyShapes \ {"ok"}}

IdleRequest ==
    [pc |-> "idle",
     variant |-> "webhook",
     body |-> MakeBody("ok", Undefined, Undefined, Undefined),
     lib |-> "unused",
     name |-> <<>>, email |-> <<>>, phone |-> <<>>,
     nameValid |-> FALSE, emailValid |-> FALSE, phoneValid |-> FALSE,
     events |-> <<>>,
     response |-> NoResponse,
     responses |-> 0]

\* the handler sends a response and returns
Respond(q, resp) ==
    [q EXCEPT !.pc = "done", !.response = resp, !.responses = q.responses + 1,
              !.events = q.events \o <<"respond">>]

\* req.body.queryResult.parameters or params['fullname'] throws a TypeError
\* before the handler's try block (webhook.js 144, 148): the handler's promise
\* rejects and the framework decides what the client sees
Crash(q, fw) ==
    [q EXCEPT !.pc = "crashed",
              !.response = FrameworkErrorResponse(fw),
              !.responses = IF fw = "framework500" THEN 1 ELSE 0,
              !.events = q.events \o <<"throw">>]

\* !name || !email || !phone (webhook.js 158)
AnyMissing(name, email, phone) == name = <<>> \/ email = <<>> \/ phone = <<>>

\* a variant of AnyInvalid that rejects only when every validator fails
AnyInvalidAllFail(nameValid, emailValid, phoneValid) ==
    ~nameValid /\ ~emailValid /\ ~phoneValid

\* !nameValid || !emailValid || !phoneValid (webhook.js 175)
AnyInvalid(nameValid, emailValid, phoneValid) ==
    ~nameValid \/ ~emailValid \/ ~phoneValid

\* the handler from its first line to its first await or its response
\* (webhook.js 143-194): extraction, the missing-field check, the three
\* validators, the invalid-field check, the call of saveToGoogleSheets
HandleRequest(v, body, lib, fw) ==
    LET q0 == [IdleRequest EXCEPT !.variant = v, !.body = body]
    IN  IF body.shape # "ok" THEN Crash(q0, fw)
        ELSE
        LET name == ExtractName(body.fullname)
            email == ExtractField(body.email)
            phone == ExtractField(body.phone)
            q1 == [q0 EXCEPT !.name = name, !.email = email, !.phone = phone]
        IN  IF AnyMissing(name, email, phone)
            THEN Respond(q1, MissingResponse)
            ELSE
            LET nameValid == isValidName(Str(name))
                emailValid == isValidEmail(Str(email))
                phoneValid == isValidPhoneNumber(Str(phone), lib)
                q2 == [q1 EXCEPT !.lib = lib,
                                 !.nameValid = nameValid,
                                 !.emailValid = emailValid,
                                 !.phoneValid = phoneValid,
                                 !.events = <<"isValidName", "isValidEmail",
                                              "isValidPhoneNumber">>]
            IN  IF AnyInvalid(nameValid, emailValid, phoneValid)
                THEN Respond(q2, InvalidResponse(v, nameValid, emailValid,
                                                 phoneValid))
                ELSE [q2 EXCEPT !.pc = "saving",
                                !.events = q2.events \o <<"saveToGoogleSheets">>]

\* whether the validators are reached for this body
ReachesValidators(body) ==
    /\ body.shape = "ok"
    /\ ~AnyMissing(ExtractName(body.fullname), ExtractField(body.email),
                   ExtractField(body.phone))

\* what the phone library can answer for the phone-number parameter of a
\* body.  phoneUtil.parse(phone) is called without a default region
\* (webhook.js 58), so the text of a number, which has no leading +, makes
\* it throw; for a string any outcome is possible.
LibAnswers(body) ==
    IF ~ReachesValidators(body) THEN {"unused"}
    ELSE IF body.phone.t = "string" THEN LibOutcomes
    ELSE {"parse_throws"}

\* a variant of AfterSave that logs a failed save and goes on to the mail
AfterSaveIgnoringFailure(q, outcome) ==
    [q EXCEPT !.pc = "mailing",
              !.events = q.events
                         \o <<IF outcome = "ok" THEN "save_returned" ELSE "save_threw",
                              "sendConfirmationEmail">>]

\* the handler after await saveToGoogleSheets(...) settles (webhook.js
\* 194-208): on success it calls sendConfirmationEmail, on a throw it answers
\* 500 from the catch block
AfterSave(q, outcome) ==
    IF outcome = "ok"
    THEN [q EXCEPT !.pc = "mailing",
                   !.events = q.events \o <<"save_returned",
                                            "sendConfirmationEmail">>]
    ELSE Respond([q EXCEPT !.events = q.events \o <<"save_threw">>],
                 ErrorResponse)

\* a variant of AfterMail that sends the mail again when it failed
AfterMailRetrying(q, outcome) ==
    IF outcome = "ok"
    THEN Respond([q EXCEPT !.events = q.events \o <<"mail_returned">>],
                 SuccessResponse)
    ELSE [q EXCEPT !.events = q.events \o <<"mail_threw", "sendConfirmationEmail">>]

\* the handler after await sendConfirmationEmail(...) settles (webhook.js
\* 195-208)
AfterMail(q, outcome) ==
    IF outcome = "ok"
    THEN Respond([q EXCEPT !.events = q.events \o <<"mail_returned">>],
                 SuccessResponse)
    ELSE Respond([q EXCEPT !.events = q.events \o <<"mail_threw">>],
                 ErrorResponse)

\* the row saveToGoogleSheets appends: values [[name, email, phone]] in
\* webhook.js 90, [[name, email, phone, date, time]] in part_000 92
SheetRow(r, q) ==
    [req |-> r,
     values |-> IF q.variant = "webhook" THEN <<q.name, q.email, q.phone>>
                ELSE <<q.name, q.email, q.phone,
                       <<"YYYY-MM-DD">>, <<"HH:MM:SS">>>>]

\* the mail sendConfirmationEmail sends (webhook.js 120-128)
Mail(r, q) == [req |-> r, to |-> q.email, userName |-> q.name]

----------------------------------------------------------------------------
(* Intake handler: actions *)

\* a request arrives at POST /api/webhook of one of the intake files and the
\* handler runs to its first await or its response
Receive(r) ==
    /\ reqs[r].pc = "idle"
    /\ \E v \in Variants : \E body \in Bodies :
       \E lib \in LibAnswers(body) :
       \E fw \in (IF body.shape = "ok" THEN {"unused"} ELSE FrameworkOutcomes) :
            reqs' = [reqs EXCEPT ![r] = HandleRequest(v, body, lib, fw)]
    /\ UNCHANGED <<sheet, outbox, faqVars, frontVars, pureVars>>

\* the spreadsheet append succeeds and the handler resumes
SaveReturns(r) ==
    /\ reqs[r].pc = "saving"
    /\ sheet' = Append(sheet, SheetRow(r, reqs[r]))
    /\ reqs' = [reqs EXCEPT ![r] = AfterSave(reqs[r], "ok")]
    /\ UNCHANGED <<outbox, faqVars, frontVars, pureVars>>

\* saveToGoogleSheets throws (credentials, client, append) and the handler
\* resumes in its catch block
SaveThrows(r) ==
    /\ reqs[r].pc = "saving"
    /\ reqs' = [reqs EXCEPT ![r] = AfterSave(reqs[r], "throw")]
    /\ UNCHANGED <<sheet, outbox, faqVars, frontVars, pureVars>>

\* the mail is sent and the handler resumes
MailReturns(r) ==
    /\ reqs[r].pc = "mailing"
    /\ outbox' = Append(outbox, Mail(r, reqs[r]))
    /\ reqs' = [reqs EXCEPT ![r] = AfterMail(reqs[r], "ok")]
    /\ UNCHANGED <<sheet, faqVars, frontVars, pureVars>>

\* sendConfirmationEmail throws and the handler resumes in its catch block
MailThrows(r) ==
    /\ reqs[r].pc = "mailing"
    /\ reqs' = [reqs EXCEPT ![r] = AfterMail(reqs[r], "throw")]
    /\ UNCHANGED <<sheet, outbox, faqVars, frontVars, pureVars>>

----------------------------------------------------------------------------
(* FAQ service (src/src/index.js): facility data *)

Davis ==
    <<"d", "a", "v", "i", "s">>

Roseville ==
    <<"r", "o", "s", "e", "v", "i", "l", "l", "e">>

Pleasanton ==
    <<"p", "l", "e", "a", "s", "a", "n", "t", "o", "n">>

FortCavazos ==
    <<"f", "o", "r", "t", " ", "c", "a", "v", "a", "z", "o", "s">>

WholeBody ==
    <<"w", "h", "o", "l", "e", "-", "b", "o", "d", "y", " ", "c", "r",
    "y", "o", "t", "h", "e", "r", "a", "p", "y">>

CryoFacial ==
    <<"c", "r", "y", "o", " ", "f", "a", "c", "i", "a", "l">>

Localized ==
    <<"l", "o", "c", "a", "l", "i", "z", "e", "d", " ", "t", "r", "e",
    "a", "t", "m", "e", "n", "t", "s">>

\* one element of a services array
Service(name, link) == [name |-> name, booking_link |-> link]

\* the object literal assigned to cachedCenters (index.js 35-73)
CentersLiteral ==
    (Davis :> [services |->
                  <<Service(WholeBody, "https://hirefrederick.com/us-cryotherapy-davis/whole-body"),
                    Service(CryoFacial, "https://hirefrederick.com/us-cryotherapy-davis/facial")>>,
               general_booking_link |-> "https://hirefrederick.com/us-cryotherapy-davis",
               business_link |-> "https://g.co/kgs/zufxqGm",
               hours |-> "Mon-Fri: 10am-6pm, Sat: 10am-4pm, Sun: Closed"])
    @@ (Roseville :> [services |->
                  <<Service(WholeBody, "https://hirefrederick.com/us-cryotherapy-roseville/whole-body"),
                    Service(Localized, "https://hirefrederick.com/us-cryotherapy-roseville/localized")>>,
               general_booking_link |-> "https://hirefrederick.com/us-cryotherapy-roseville",
               business_link |-> "https://g.co/kgs/d1SZgA2",
               hours |-> "Mon-Fri: 9am-7pm, Sat: 9am-5pm, Sun: 10am-4pm"])
    @@ (Pleasanton :> [services |->
                  <<Service(CryoFacial, "https://hirefrederick.com/us-cryotherapy-pleasanton/facial"),
                    Service(Localized, "https://hirefrederick.com/us-cryotherapy-pleasanton/localized")>>,
               general_booking_link |-> "https://hirefrederick.com/us-cryotherapy-pleasanton",
               business_link |-> "https://g.co/kgs/duuTmC6",
               hours |-> "Mon-Fri: 10am-6pm, Sat: 10am-4pm, Sun: Closed"])
    @@ (FortCavazos :> [services |->
                  <<Service(WholeBody, "https://hirefrederick.com/us-cryotherapy-fort-cavazos/whole-body"),
                    Service(CryoFacial, "https://hirefrederick.com/us-cryotherapy-fort-cavazos/facial"),
                    Service(Localized, "https://hirefrederick.com/us-cryotherapy-fort-cavazos/localized")>>,
               general_booking_link |-> "https://hirefrederick.com/us-cryotherapy-fort-cavazos",
               business_link |-> "https://g.co/kgs/dgh16ZW",
               hours |-> "Mon-Fri: 8am-8pm, Sat-Sun: 9am-5pm"])

\* Object.keys(centers), in insertion order (index.js 118)
CenterKeys == <<Davis, Roseville, Pleasanton, FortCavazos>>

\* a variant of validCenters with a center the mapping has no record of
validCentersOutOfStep ==
    {Davis, Roseville, Pleasanton, FortCavazos, <<"m", "a", "r", "s">>}

\* const validCenters = [...] (index.js 105)
validCenters == {Davis, Roseville, Pleasanton, FortCavazos}

----------------------------------------------------------------------------
(* FAQ service: the facility cache (index.js 26-78) *)

\* const CACHE_DURATION = 5 * 60 * 1000 (index.js 28)
CACHE_DURATION == 5 * 60 * 1000

\* the delay of the simulated upstream call, setTimeout(resolve, 1000)
\* (index.js 34)
RefreshDelay == 1000

\* Date.now() when the model starts
StartTime == 1000

\* the clock advances at most this many times
MaxTicks == 3

\* how far one advance of the clock moves it
TickSteps == {RefreshDelay, CACHE_DURATION}

\* a module-level variable holding null
NullTime == [null |-> TRUE, ms |-> 0]
TimeVal(t) == [null |-> FALSE, ms |-> t]

\* the number a value becomes in arithmetic: null is 0
ToNumber(x) == IF x.null THEN 0 ELSE x.ms

\* cachedCenters: null, or a reference to an object created by a refresh.
\* id is the identity of the object, data its content.
NullObject == [null |-> TRUE, id |-> 0, data |-> <<>>]
NewObject(id) == [null |-> FALSE, id |-> id, data |-> CentersLiteral]

\* a variant of NeedsRefresh that expires the cache one millisecond early
NeedsRefreshAtBoundary(cache, last, t) ==
    cache.null \/ t - ToNumber(last) >= CACHE_DURATION

\* !cachedCenters || Date.now() - lastFetchTime > CACHE_DURATION (index.js 32)
NeedsRefresh(cache, last, t) ==
    cache.null \/ t - ToNumber(last) > CACHE_DURATION

CallIds == 1..4

IdleCall ==
    [pc |-> "idle", start |-> 0, refreshed |-> FALSE, seen |-> NullObject,
     seenLast |-> NullTime, end |-> 0, got |-> NullObject]

\* fetchCenters() from its call to its await or its return (index.js 31-34,
\* 77).  seen and seenLast record what the guard read.
BeginFetch(cache, last, t) ==
    IF NeedsRefresh(cache, last, t)
    THEN [IdleCall EXCEPT !.pc = "delay", !.start = t, !.refreshed = TRUE,
                          !.seen = cache, !.seenLast = last]
    ELSE [IdleCall EXCEPT !.pc = "returned", !.start = t, !.end = t,
                          !.seen = cache, !.seenLast = last, !.got = cache]

\* the timer of a pending refresh has expired
TimerDue(c, t) == c.pc = "delay" /\ t >= c.start + RefreshDelay

\* a variant of EndFetch that returns the object read before the delay
EndFetchReturningSeen(c, id, t) ==
    [c EXCEPT !.pc = "returned", !.end = t, !.got = c.seen]

\* fetchCenters() after its await (index.js 35-77): the new object is
\* assigned, lastFetchTime is set, and the function returns cachedCenters
EndFetch(c, id, t) ==
    [c EXCEPT !.pc = "returned", !.end = t, !.got = NewObject(id)]

----------------------------------------------------------------------------
(* FAQ service: strings of the handler.  The typographic apostrophes and   *)
(* the emoji of the source texts are written in ASCII or left out.         *)

UpperCase == <<"A", "B", "C", "D", "E", "F", "G", "H", "I", "J", "K", "L", "M",
               "N", "O", "P", "Q", "R", "S", "T", "U", "V", "W", "X", "Y", "Z">>
LowerCase == <<"a", "b", "c", "d", "e", "f", "g", "h", "i", "j", "k", "l", "m",
               "n", "o", "p", "q", "r", "s", "t", "u", "v", "w", "x", "y", "z">>

LowerChar(c) ==
    IF \E i \in 1..Len(UpperCase) : UpperCase[i] = c
    THEN LowerCase[CHOOSE i \in 1..Len(UpperCase) : UpperCase[i] = c]
    ELSE c

\* String.prototype.toLowerCase
ToLowerCase(s) == [i \in 1..Len(s) |-> LowerChar(s[i])]

\* Array.prototype.join
RECURSIVE Join(_, _)
Join(parts, sep) ==
    IF parts = <<>> THEN <<>>
    ELSE IF Len(parts) = 1 THEN parts[1]
    ELSE parts[1] \o sep \o Join(Tail(parts), sep)

\* String.prototype.replace(pattern, value) with a string pattern: the first
\* occurrence of the placeholder atom is replaced
ReplaceFirst(s, placeholder, value) ==
    LET at == {i \in 1..Len(s) : s[i] = placeholder}
    IN  IF at = {} THEN s
        ELSE LET i == CHOOSE x \in at : \A y \in at : x <= y
             IN  SubSeq(s, 1, i - 1) \o value \o SubSeq(s, i + 1, Len(s))

\* const bookingConfirmations = [...] (index.js 81-85)
bookingConfirmations ==
    << <<"Awesome! You can book your ", "{service}", " at ", "{center}", " here: ",
         "{booking_link}",
         " You're making a great choice - let me know if you need anything else!">>,
       <<"Great pick! Book your ", "{service}", " at ", "{center}", " with this link: ",
         "{booking_link}", " Any questions? I'm here to help!">>,
       <<"You're all set! Schedule your ", "{service}", " at ", "{center}", " here: ",
         "{booking_link}",
         " Excited for you - let me know if you need more assistance!">> >>

\* const explanations = [...] (index.js 87-91)
explanations ==
    << <<"Cryotherapy is a fantastic way to boost recovery! It uses cold temps to reduce inflammation, lift your energy, and even improve your mood - all in just a few minutes. Want to try it? I can help you book!">>,
       <<"Cryotherapy speeds up recovery with cold temperatures that ease inflammation and boost energy. It's quick, safe, and feels amazing! Ready to book a session?">>,
       <<"With cryotherapy, you get less inflammation, better mood, and more energy in just minutes! It's a wellness game-changer. Shall I help you book?">> >>

\* Math.floor(Math.random() * 3) + 1
TemplateChoices == 1..3

\* the corrective message of center validation (index.js 107-109)
CorrectiveText(center) ==
    <<"Oops! ">> \o center
    \o <<" isn't one of our centers. We have Davis, Roseville, Pleasanton, and Fort Cavazos. Which one would you like?">>

ServiceTypeText ==
    <<"Hmm, that service doesn't look right. Could you specify it again?">>

AskCenterText ==
    <<"Hi! I'm Jen, your US Cryotherapy assistant. Which center would you like to visit? We've got Davis, Roseville, Pleasanton, and Fort Cavazos!">>

RescheduleAskText ==
    <<"Please call your center to reschedule. Tell me which one, and I'll get you the contact link!">>

ConcernsText ==
    <<"No stress! Cryotherapy is safe, fast (2-3 minutes), and super refreshing. Our staff guides you every step. Any specific worries I can ease?">>

WhichCenterText ==
    <<"We've got centers in Davis, Roseville, Pleasanton, and Fort Cavazos. ",
      "Which one are you curious about?">>

FallbackText ==
    <<"Oops, I didn't catch that! I can book appointments, explain cryotherapy, or share center info. What's on your mind?">>

FaqErrorText == <<"Sorry, something went wrong on my end. Try again soon!">>

\* res.json({ fulfillmentText }) and res.status(500).json({ fulfillmentText })
FaqOk(text) == [status |-> 200, text |-> text]
FaqError == [status |-> 500, text |-> FaqErrorText]
FaqNoResponse == [status |-> 0, text |-> <<>>]

----------------------------------------------------------------------------
(* FAQ service: the handler of POST /webhook (index.js 94-195) *)

FaqBodyShapes == {"ok", "noQueryResult", "noBody"}

MakeFaqBody(shape, intent, center, service) ==
    [shape |-> shape, intent |-> intent, center |-> center, service |-> service]

Intents == {"Book Appointment", "Explain Cryotherapy", "Reschedule Appointment",
            "Address Concerns", "Provide Center Information"}

\* displayName values: the five intents, one the handler does not know, and
\* the empty string of a request without displayName
IntentValues == Intents \cup {"Check Weather", ""}

CenterValues ==
    {Undefined, Str(<<>>), Str(<<"D", "a", "v", "i", "s">>), Str(FortCavazos),
     Str(<<"M", "a", "r", "s">>), Num(5)}

ServiceValues ==
    {Undefined, Str(<<"C", "r", "y", "o", " ", "F", "a", "c", "i", "a", "l">>),
     Str(WholeBody), Str(<<"s", "a", "u", "n", "a">>), Num(7)}

FaqBodies ==
    {MakeFaqBody("ok", i, c, s) :
        i \in IntentValues, c \in CenterValues, s \in ServiceValues}
    \cup {MakeFaqBody(sh, "", Undefined, Undefined) :
            sh \in FaqBodyShapes \ {"ok"}}

\* body.queryResult?.intent?.displayName || ''
IntentOf(body) == IF body.shape = "ok" THEN body.intent ELSE ""

\* the parameter read from body.queryResult?.parameters || {}
ParamOf(body, value) == IF body.shape = "ok" THEN value ELSE Undefined

\* p ? p.toLowerCase() : '' throws when p is truthy and not a string
LowerThrows(p) == Truthy(p) /\ TypeOf(p) # "string"

\* p ? p.toLowerCase() : ''
Lowered(p) == IF Truthy(p) THEN ToLowerCase(p.s) ELSE <<>>

\* the names of the services of a center record
ServiceNames(rec) == [i \in 1..Len(rec.services) |-> rec.services[i].name]

\* centerData.services.some(s => s.name.toLowerCase() === service)
Offers(rec, service) ==
    \E i \in 1..Len(rec.services) : ToLowerCase(rec.services[i].name) = service

\* centerData.services.find(s => s.name.toLowerCase() === service): the index
\* of the first match, 0 when there is none
FindService(rec, service) ==
    LET at == {i \in 1..Len(rec.services) :
                  ToLowerCase(rec.services[i].name) = service}
    IN  IF at = {} THEN 0 ELSE CHOOSE x \in at : \A y \in at : x <= y

\* allCenters.filter(c => centers[c].services.some(...))
RECURSIVE FilterOffering(_, _, _)
FilterOffering(keys, centers, service) ==
    IF keys = <<>> THEN <<>>
    ELSE (IF Offers(centers[Head(keys)], service) THEN <<Head(keys)>> ELSE <<>>)
         \o FilterOffering(Tail(keys), centers, service)

\* a variant of FillTemplate that leaves the link placeholder in place
FillTemplateNoLink(k, service, center, link) ==
    ReplaceFirst(ReplaceFirst(bookingConfirmations[k],
        "{service}", service), "{center}", center)

\* a booking-confirmation template with its three placeholders replaced
\* (index.js 144-147, 157-160)
FillTemplate(k, service, center, link) ==
    ReplaceFirst(ReplaceFirst(ReplaceFirst(bookingConfirmations[k],
        "{service}", service), "{center}", center), "{booking_link}", <<link>>)

\* the 'Book Appointment' branch (index.js 122-163)
BookAppointment(center, service, centers, k) ==
    IF center = <<>>
    THEN IF service # <<>>
         THEN LET availableCenters == FilterOffering(CenterKeys, centers, service)
              IN  IF availableCenters # <<>>
                  THEN <<"Hi! I'm Jen. We offer ">> \o service \o <<" at ">>
                       \o Join(availableCenters, <<",", " ">>)
                       \o <<". Which location works for you?">>
                  ELSE <<"Hi! I'm Jen. Sorry, ">> \o service
                       \o <<" isn't available at our centers. Can I help with something else?">>
         ELSE AskCenterText
    ELSE LET centerData == centers[center]
         IN  IF service # <<>>
             THEN LET found == FindService(centerData, service)
                  IN  IF found # 0
                      THEN FillTemplate(k, service, center,
                                        centerData.services[found].booking_link)
                      ELSE <<"Sorry, ">> \o service \o <<" isn't offered at ">>
                           \o center \o <<". We have ">>
                           \o Join(ServiceNames(centerData), <<",", " ">>)
                           \o <<". Book here: ", centerData.general_booking_link,
                                " Need help picking?">>
             ELSE FillTemplate(k, <<"session">>, center,
                               centerData.general_booking_link)

\* whether the dispatch dereferences a missing center record and throws
\* (index.js 137-140: centerData.services of undefined)
DispatchThrows(intent, center, centers) ==
    intent = "Book Appointment" /\ center # <<>> /\ center \notin DOMAIN centers

\* the intent branches (index.js 122-186): the response text
Dispatch(intent, center, service, centers, k) ==
    CASE intent = "Book Appointment" ->
            BookAppointment(center, service, centers, k)
      [] intent = "Explain Cryotherapy" -> explanations[k]
      [] intent = "Reschedule Appointment" ->
            IF center # <<>> /\ center \in DOMAIN centers
            THEN <<"To reschedule at ">> \o center
                 \o <<", please call them directly. Contact info here: ",
                      centers[center].business_link,
                      " They'll sort it out for you!">>
            ELSE RescheduleAskText
      [] intent = "Address Concerns" -> ConcernsText
      [] intent = "Provide Center Information" ->
            IF center # <<>> /\ center \in DOMAIN centers
            THEN <<"Here's the scoop on ">> \o center \o <<":\n- **Services**: ">>
                 \o Join(ServiceNames(centers[center]), <<",", " ">>)
                 \o <<"\n- **Hours**: ", centers[center].hours,
                      "\n- **More Info**: ", centers[center].business_link,
                      "\nWant to book?">>
            ELSE WhichCenterText
      [] OTHER -> FallbackText

\* the response after fetchCenters has returned centers (index.js 118-193)
DispatchResponse(intent, center, service, centers, k) ==
    IF DispatchThrows(intent, center, centers) THEN FaqError
    ELSE FaqOk(Dispatch(intent, center, service, centers, k))

\* whether the branch taken draws a random template
UsesRandom(intent, center) ==
    \/ intent = "Explain Cryotherapy"
    \/ intent = "Book Appointment" /\ center # <<>>

\* a variant of Precheck without the center validation
PrecheckNoCenterCheck(body) ==
    IF body.shape = "noBody" THEN "throw"
    ELSE IF LowerThrows(ParamOf(body, body.center)) THEN "throw"
    ELSE IF LowerThrows(ParamOf(body, body.service)) THEN "throw"
    ELSE "fetch"

\* the handler before it calls fetchCenters (index.js 95-115): "throw" when
\* the body cannot be read, "corrective" and "serviceType" for the two early
\* responses, "fetch" when it goes on to fetchCenters
Precheck(body) ==
    IF body.shape = "noBody" THEN "throw"
    ELSE IF LowerThrows(ParamOf(body, body.center)) THEN "throw"
    ELSE IF LowerThrows(ParamOf(body, body.service)) THEN "throw"
    ELSE LET center == Lowered(ParamOf(body, body.center))
             service == Lowered(ParamOf(body, body.service))
         IN  IF center # <<>> /\ center \notin validCenters THEN "corrective"
             ELSE IF service # <<>> /\ TypeOf(Str(service)) # "string"
                  THEN "serviceType"
             ELSE "fetch"

\* the response of a request that does not reach fetchCenters
EarlyResponse(body) ==
    CASE Precheck(body) = "throw" -> FaqError
      [] Precheck(body) = "serviceType" -> FaqOk(ServiceTypeText)
      [] OTHER -> FaqOk(CorrectiveText(Lowered(ParamOf(body, body.center))))

----------------------------------------------------------------------------
(* FAQ service: actions *)

\* one FAQ connection, reused request after request
FaqRequests == {1}

IdleFaq ==
    [pc |-> "idle",
     body |-> MakeFaqBody("ok", "", Undefined, Undefined),
     k |-> 1,
     response |-> FaqNoResponse,
     responses |-> 0]

FaqRespond(q, resp) ==
    [q EXCEPT !.pc = "done", !.response = resp, !.responses = q.responses + 1]

\* the response to a request whose fetchCenters call returned centers
FaqAnswer(q, centers) ==
    FaqRespond(q, DispatchResponse(IntentOf(q.body),
                                   Lowered(ParamOf(q.body, q.body.center)),
                                   Lowered(ParamOf(q.body, q.body.service)),
                                   centers, q.k))

\* the choices of Math.random that matter for this body
RandomChoices(body) ==
    IF Precheck(body) = "fetch"
       /\ UsesRandom(IntentOf(body), Lowered(ParamOf(body, body.center)))
    THEN TemplateChoices ELSE {1}

\* a request arrives at POST /webhook: the handler runs to its response or
\* to the await inside fetchCenters
FaqReceive(r) ==
    /\ freqs[r].pc = "idle"
    /\ \E body \in FaqBodies : \E k \in RandomChoices(body) :
        LET q == [IdleFaq EXCEPT !.body = body, !.k = k]
        IN  IF Precheck(body) # "fetch"
            THEN /\ freqs' = [freqs EXCEPT ![r] = FaqRespond(q, EarlyResponse(body))]
                 /\ UNCHANGED calls
            ELSE LET c == BeginFetch(cachedCenters, lastFetchTime, now)
                 IN  /\ calls' = [calls EXCEPT ![r] = c]
                     /\ freqs' = [freqs EXCEPT ![r] =
                            IF c.pc = "returned" THEN FaqAnswer(q, c.got.data)
                            ELSE [q EXCEPT !.pc = "fetching"]]
    /\ UNCHANGED <<now, ticks, cachedCenters, lastFetchTime, nextObj, intakeVars, frontVars, pureVars>>

\* the refresh delay of a request's fetchCenters call is over: the cache is
\* replaced and the handler dispatches on the intent and responds
FaqResume(r) ==
    /\ freqs[r].pc = "fetching"
    /\ TimerDue(calls[r], now)
    /\ cachedCenters' = NewObject(nextObj)
    /\ lastFetchTime' = TimeVal(now)
    /\ nextObj' = nextObj + 1
    /\ calls' = [calls EXCEPT ![r] = EndFetch(calls[r], nextObj, now)]
    /\ freqs' = [freqs EXCEPT ![r] = FaqAnswer(freqs[r], NewObject(nextObj).data)]
    /\ UNCHANGED <<now, ticks, intakeVars, frontVars, pureVars>>

\* the response has been sent; the connection takes the next request
FaqClose(r) ==
    /\ freqs[r].pc = "done"
    /\ freqs' = [freqs EXCEPT ![r] = IdleFaq]
    /\ calls' = [calls EXCEPT ![r] = IdleCall]
    /\ UNCHANGED <<now, ticks, cachedCenters, lastFetchTime, nextObj, intakeVars, frontVars, pureVars>>

\* fetchCenters() is called (by a handler that passed its checks); the
\* calls are numbered in the order they are made
CallFetchCenters(c) ==
    /\ calls[c].pc = "idle"
    /\ \A b \in CallIds : b < c => calls[b].pc # "idle"
    /\ calls' = [calls EXCEPT ![c] = BeginFetch(cachedCenters, lastFetchTime, now)]
    /\ UNCHANGED <<now, ticks, cachedCenters, lastFetchTime, nextObj, freqs,
                   intakeVars, frontVars, pureVars>>

\* a variant of RefreshCompletes that does not record the time of the refresh
RefreshCompletesNoTimestamp(c) ==
    /\ TimerDue(calls[c], now)
    /\ cachedCenters' = NewObject(nextObj)
    /\ nextObj' = nextObj + 1
    /\ calls' = [calls EXCEPT ![c] = EndFetch(calls[c], nextObj, now)]
    /\ UNCHANGED <<lastFetchTime, now, ticks, freqs, intakeVars, frontVars,
                   pureVars>>

\* a variant of RefreshCompletes that keeps a cache another refresh has
\* filled since this one began
RefreshCompletesFirstWins(c) ==
    /\ TimerDue(calls[c], now)
    /\ IF cachedCenters.id = calls[c].seen.id
       THEN /\ cachedCenters' = NewObject(nextObj)
            /\ lastFetchTime' = TimeVal(now)
            /\ nextObj' = nextObj + 1
            /\ calls' = [calls EXCEPT ![c] = EndFetch(calls[c], nextObj, now)]
       ELSE /\ calls' = [calls EXCEPT ![c] =
                           [calls[c] EXCEPT !.pc = "returned", !.end = now,
                                            !.got = cachedCenters]]
            /\ UNCHANGED <<cachedCenters, lastFetchTime, nextObj>>
    /\ UNCHANGED <<now, ticks, freqs, intakeVars, frontVars, pureVars>>

\* the refresh delay of a fetchCenters call is over: the cache is replaced
\* and the call returns the new object
RefreshCompletes(c) ==
    /\ TimerDue(calls[c], now)
    /\ cachedCenters' = NewObject(nextObj)
    /\ lastFetchTime' = TimeVal(now)
    /\ nextObj' = nextObj + 1
    /\ calls' = [calls EXCEPT ![c] = EndFetch(calls[c], nextObj, now)]
    /\ UNCHANGED <<now, ticks, freqs, intakeVars, frontVars, pureVars>>

\* the clock reaches the time at which a pending refresh timer is due
TimerExpires ==
    /\ \E c \in CallIds : calls[c].pc = "delay" /\ ~TimerDue(calls[c], now)
    /\ now' = now + RefreshDelay
    /\ UNCHANGED <<ticks, cachedCenters, lastFetchTime, nextObj, calls, freqs,
                   intakeVars, frontVars, pureVars>>

\* time passes
Tick ==
    /\ ticks < MaxTicks
    /\ \E d \in TickSteps : now' = now + d
    /\ ticks' = ticks + 1
    /\ UNCHANGED <<cachedCenters, lastFetchTime, nextObj, calls, freqs, intakeVars, frontVars, pureVars>>

----------------------------------------------------------------------------
(* FAQ service: the rate limiter of /webhook and GET /health               *)
(* (index.js 17-23, 197-205).  The limiter counts the requests of a client *)
(* in fixed windows of windowMs and lets the first max of a window pass.   *)

\* windowMs: 15 * 60 * 1000 (index.js 19)
windowMs == 15 * 60 * 1000

\* max: 100 (index.js 20)
max == 100

\* message: '...' (index.js 21)
message == "Too many requests from this IP, please try again later."

\* clients, told apart by their IP address
Clients == {"a", "b"}

\* the limiter goes on counting the requests it rejects; the model follows
\* the count this far beyond max
MaxExcess == 2

\* the requests followed for the second client
MaxOtherHits == 3

\* a variant of LimiterApplies for app.use(limiter)
LimiterAppliesEverywhere(path) == TRUE

\* app.use('/webhook', limiter) (index.js 23)
LimiterApplies(path) == path = "/webhook"

\* the limiter rejects a request whose count in the window exceeds max
OverLimit(current) == current > max

\* the response of the limiter to a rejected request
RejectionResponse == [status |-> 429, text |-> <<message>>]

\* what became of the requests of a client in the current window: how many
\* reached the handler of their path, how many were rejected, the fate of
\* the last one and the response the limiter sent for it
IdleClient ==
    [handled |-> 0, rejected |-> 0, last |-> "none", path |-> "",
     response |-> FaqNoResponse]

NoHealth == [status |-> 0, timestamp |-> 0, cacheStatus |-> <<>>]

\* lastFetchTime ? `Last updated: ${...}` : "Not cached" (index.js 203)
CacheStatus(last) ==
    IF ~last.null /\ last.ms # 0
    THEN <<"Last updated: ", last.ms>>
    ELSE <<"Not cached">>

\* the response of GET /health (index.js 199-204)
HealthResponse(last, t) ==
    [status |-> 200, timestamp |-> t, cacheStatus |-> CacheStatus(last)]

\* a request of a client arrives for a path: the limiter, where it applies,
\* counts it and rejects it or passes it on; a request passed on reaches the
\* handler of its path
Arrives(cl, path) ==
    LET current == limiter.hits[cl] + 1
        rejects == LimiterApplies(path) /\ OverLimit(current)
    IN  /\ limiter.hits[cl] < (IF cl = "a" THEN max + MaxExcess ELSE MaxOtherHits)
        /\ limiter' = IF LimiterApplies(path)
                      THEN [limiter EXCEPT !.hits[cl] = current]
                      ELSE limiter
        /\ clients' = [clients EXCEPT ![cl] =
              IF rejects
              THEN [@ EXCEPT !.rejected = @ + 1, !.last = "rejected",
                             !.path = path, !.response = RejectionResponse]
              ELSE [@ EXCEPT !.handled = IF path = "/webhook" THEN @ + 1 ELSE @,
                             !.last = "handler", !.path = path,
                             !.response = FaqNoResponse]]
        /\ health' = IF ~rejects /\ path = "/health"
                     THEN HealthResponse(lastFetchTime, now)
                     ELSE health
        /\ UNCHANGED <<faqVars, intakeVars, pureVars>>

\* the window of the limiter is over: the counts of all clients start again
WindowReset ==
    /\ now >= limiter.resetAt
    /\ limiter' = [hits |-> [cl \in Clients |-> 0],
                   resetAt |-> limiter.resetAt + windowMs]
    /\ clients' = [cl \in Clients |-> IdleClient]
    /\ UNCHANGED <<health, faqVars, intakeVars, pureVars>>

----------------------------------------------------------------------------
(* The validators of the intake service called on their own                *)
(* (webhook.js 26-64, part_000 23-63)                                      *)

\* the characters of the strings the validators are called with: letters
\* of both cases, white space, a digit and a punctuation character
NameAlphabet == {"a", "Z", " ", "\t", "7", "-"}

\* the longest such string
MaxNameLen == 5

\* the values the validators are called with
ValidatorInputs ==
    {Undefined, Null, Num(7), ObjEmpty, ObjName(<<"a", " ", "Z">>)}
    \cup {Str(s) : s \in UNION {[1..k -> NameAlphabet] : k \in 0..MaxNameLen}}

NoCall == [fn |-> "", lib |-> "", result |-> FALSE]

CallIsValidName ==
    /\ vout' = [fn |-> "isValidName", lib |-> "", result |-> isValidName(vin)]
    /\ UNCHANGED <<vin, intakeVars, faqVars, frontVars>>

CallIsValidEmail ==
    /\ vout' = [fn |-> "isValidEmail", lib |-> "", result |-> isValidEmail(vin)]
    /\ UNCHANGED <<vin, intakeVars, faqVars, frontVars>>

CallIsValidPhoneNumber ==
    /\ \E lib \in LibOutcomes :
          vout' = [fn |-> "isValidPhoneNumber", lib |-> lib,
                   result |-> isValidPhoneNumber(vin, lib)]
    /\ UNCHANGED <<vin, intakeVars, faqVars, frontVars>>

----------------------------------------------------------------------------
(* Specifications *)

\* the state of the services when the modules have been loaded
InitServices ==
    /\ reqs = [r \in Requests |-> IdleRequest]
    /\ sheet = <<>>
    /\ outbox = <<>>
    /\ now = StartTime
    /\ ticks = 0
    /\ cachedCenters = NullObject
    /\ lastFetchTime = NullTime
    /\ nextObj = 1
    /\ calls = [c \in CallIds |-> IdleCall]
    /\ freqs = [r \in FaqRequests |-> IdleFaq]
    /\ limiter = [hits |-> [cl \in Clients |-> 0], resetAt |-> StartTime + windowMs]
    /\ clients = [cl \in Clients |-> IdleClient]
    /\ health = NoHealth

Init ==
    /\ InitServices
    /\ vin = Undefined
    /\ vout = NoCall

\* the intake service
Next ==
    \E r \in Requests :
        \/ Receive(r)
        \/ SaveReturns(r)
        \/ SaveThrows(r)
        \/ MailReturns(r)
        \/ MailThrows(r)

Spec == Init /\ [][Next]_vars

\* the FAQ service, request after request
NextFaq ==
    \/ \E r \in FaqRequests : FaqReceive(r) \/ FaqResume(r) \/ FaqClose(r)
    \/ Tick

SpecFaq == Init /\ [][NextFaq]_vars

\* the FAQ service with its scheduling: the clock does not stop before a
\* pending timer is due, and the event loop runs the callback of a due timer
NextFaqLive ==
    \/ \E r \in FaqRequests : FaqReceive(r) \/ FaqResume(r) \/ FaqClose(r)
    \/ Tick
    \/ TimerExpires

SpecFaqLive ==
    /\ Init
    /\ [][NextFaqLive]_vars
    /\ WF_vars(TimerExpires)
    /\ \A r \in FaqRequests : WF_vars(FaqResume(r))

\* the facility cache under concurrent calls of fetchCenters
NextCache ==
    \/ \E c \in CallIds : CallFetchCenters(c) \/ RefreshCompletes(c)
    \/ Tick

SpecCache == Init /\ [][NextCache]_vars

\* the rate limiter in front of the FAQ handler and of GET /health
NextLimit ==
    \/ \E cl \in Clients : \E path \in {"/webhook", "/health"} : Arrives(cl, path)
    \/ WindowReset
    \/ Tick

SpecLimit == Init /\ [][NextLimit]_vars

\* GET /health beside two concurrent calls of fetchCenters
NextHealth ==
    \/ \E c \in 1..2 : CallFetchCenters(c) \/ RefreshCompletes(c)
    \/ \E cl \in Clients : Arrives(cl, "/health")
    \/ Tick

SpecHealth == Init /\ [][NextHealth]_vars

\* the validators called with every value of ValidatorInputs
InitValidators ==
    /\ InitServices
    /\ vin \in ValidatorInputs
    /\ vout = NoCall

NextValidators ==
    \/ CallIsValidName
    \/ CallIsValidEmail
    \/ CallIsValidPhoneNumber

SpecValidators == InitValidators /\ [][NextValidators]_vars

\* the values isValidPhoneNumber is called with beside the intake handler
PhoneInputs ==
    {Undefined, Null, Num(7), ObjEmpty, ObjName(<<"+", "1", "2">>),
     Str(<<>>), Str(<<"+", "1", "2">>), Str(<<"a">>)}

\* isValidPhoneNumber called on its own and by the intake handler
InitPhone ==
    /\ InitServices
    /\ vin \in PhoneInputs
    /\ vout = NoCall

NextPhone ==
    \/ CallIsValidPhoneNumber
    \/ \E r \in Requests :
          \/ Receive(r)
          \/ SaveReturns(r)
          \/ SaveThrows(r)
          \/ MailReturns(r)
          \/ MailThrows(r)

SpecPhone == InitPhone /\ [][NextPhone]_vars

----------------------------------------------------------------------------
(* Properties of the intake handler *)

Has(s, e) == \E i \in 1..Len(s) : s[i] = e

Count(s, e) == Cardinality({i \in 1..Len(s) : s[i] = e})

RowsOf(r) == {i \in 1..Len(sheet) : sheet[i].req = r}

MailsOf(r) == {i \in 1..Len(outbox) : outbox[i].req = r}

\* a parameter that is absent, null, empty or white space only
IsMissing(v) ==
    \/ v.t \in {"undefined", "null"}
    \/ v.t = "string" /\ \A i \in 1..Len(v.s) : IsSpace(v.s[i])

Received(r) == reqs[r].pc # "idle"

ValidatorsRan(q) ==
    Has(q.events, "isValidName") \/ Has(q.events, "isValidEmail")
    \/ Has(q.events, "isValidPhoneNumber")

\* C1: for every request, sendConfirmationEmail is called only after
\* saveToGoogleSheets has been called and has returned; if saveToGoogleSheets
\* throws, sendConfirmationEmail is never called for the request, no mail of
\* it is sent, and its response has status 500.
C1_PersistBeforeNotify ==
    \A r \in Requests :
        LET ev == reqs[r].events
        IN  /\ \A j \in 1..Len(ev) :
                  ev[j] = "sendConfirmationEmail" =>
                      \E i \in 1..j : \E k \in 1..j :
                          /\ i < k /\ k < j
                          /\ ev[i] = "saveToGoogleSheets"
                          /\ ev[k] = "save_returned"
            /\ MailsOf(r) # {} => RowsOf(r) # {}
            /\ Has(ev, "save_threw") =>
                  /\ ~Has(ev, "sendConfirmationEmail")
                  /\ MailsOf(r) = {}
                  /\ reqs[r].pc = "done"
                  /\ reqs[r].response.status = 500

C1_Witness ==
    \E r \in Requests :
        /\ Has(reqs[r].events, "save_threw")
        /\ reqs[r].response.status = 500

\* C2: saveToGoogleSheets and sendConfirmationEmail are called, and a row or
\* a mail exists, only for a request whose extracted name, email and phone
\* are non-empty and trimmed and for which the three validators returned
\* true; a request answered with the collect_user_info directive has called
\* neither and has no row and no mail.
C2_OnlyValidPersisted ==
    \A r \in Requests :
        LET q == reqs[r]
        IN  /\ (\/ Has(q.events, "saveToGoogleSheets")
                \/ Has(q.events, "sendConfirmationEmail")
                \/ RowsOf(r) # {} \/ MailsOf(r) # {})
               => /\ q.name # <<>> /\ q.email # <<>> /\ q.phone # <<>>
                  /\ ~IsSpace(q.name[1]) /\ ~IsSpace(q.name[Len(q.name)])
                  /\ ~IsSpace(q.email[1]) /\ ~IsSpace(q.email[Len(q.email)])
                  /\ ~IsSpace(q.phone[1]) /\ ~IsSpace(q.phone[Len(q.phone)])
                  /\ q.nameValid /\ q.emailValid /\ q.phoneValid
                  /\ isValidName(Str(q.name))
                  /\ isValidEmail(Str(q.email))
                  /\ q.lib = "valid"
            /\ q.response.event = "collect_user_info"
               => /\ ~Has(q.events, "saveToGoogleSheets")
                  /\ ~Has(q.events, "sendConfirmationEmail")
                  /\ RowsOf(r) = {} /\ MailsOf(r) = {}

C2_Witness ==
    \E r \in Requests : RowsOf(r) # {} /\ reqs[r].body.fullname.t = "object"

\* C3: a request in which fullname, email or phone-number is absent, null,
\* empty or white space only gets the missing-field response and no validator
\* is run for it, whatever the other two fields hold.
C3_MissingField ==
    \A r \in Requests :
        LET q == reqs[r]
        IN  (/\ Received(r)
             /\ q.body.shape = "ok"
             /\ (\/ IsMissing(q.body.fullname)
                 \/ IsMissing(q.body.email)
                 \/ IsMissing(q.body.phone)))
            => /\ q.pc = "done"
               /\ q.responses = 1
               /\ q.response = MissingResponse
               /\ q.response.text = MissingText
               /\ ~ValidatorsRan(q)

C3_Witness ==
    \E r \in Requests :
        /\ reqs[r].pc = "done"
        /\ reqs[r].body.email = Str(<<" ", " ">>)
        /\ reqs[r].body.fullname = Str(<<"a", "b">>)
        /\ reqs[r].body.phone = Str(<<"+", "1", "2">>)

\* C4: when the three fields are present and a validator fails, the response
\* is the collect_user_info directive and its message holds the phrase of a
\* field exactly when the validator of that field returned false.
C4_NamesFailedFields ==
    \A r \in Requests :
        LET q == reqs[r]
        IN  (ValidatorsRan(q) /\ ~(q.nameValid /\ q.emailValid /\ q.phoneValid))
            => /\ q.pc = "done"
               /\ q.response.status = 200
               /\ q.response.event = "collect_user_info"
               /\ q.nameValid = isValidName(Str(q.name))
               /\ q.emailValid = isValidEmail(Str(q.email))
               /\ q.phoneValid = (q.lib = "valid")
               /\ Has(q.response.text, NamePhrase) <=> ~q.nameValid
               /\ Has(q.response.text, EmailPhrase) <=> ~q.emailValid
               /\ Has(q.response.text, PhonePhrase) <=> ~q.phoneValid

C4_Witness ==
    \E r \in Requests :
        /\ reqs[r].pc = "done"
        /\ ValidatorsRan(reqs[r])
        /\ ~reqs[r].nameValid /\ reqs[r].emailValid /\ ~reqs[r].phoneValid

\* C5: when saveToGoogleSheets or sendConfirmationEmail throws, the response
\* is HTTP 500 with the one fixed apology text, the success directive is not
\* sent, the handler is finished, and neither collaborator was called twice.
C5_CollaboratorFailure ==
    \A r \in Requests :
        LET q == reqs[r]
        IN  (Has(q.events, "save_threw") \/ Has(q.events, "mail_threw"))
            => /\ q.pc = "done"
               /\ q.responses = 1
               /\ q.response.status = 500
               /\ q.response.text = ApologyText
               /\ q.response.event # "trigger-booking-intent"
               /\ Count(q.events, "saveToGoogleSheets") = 1
               /\ Count(q.events, "sendConfirmationEmail") <= 1

C5_Witness ==
    \E r \in Requests :
        /\ Has(reqs[r].events, "mail_threw")
        /\ RowsOf(r) # {}
        /\ reqs[r].response.status = 500

\* a body that is malformed or has a missing or wrongly typed field
Malformed(body) ==
    \/ body.shape # "ok"
    \/ IsMissing(body.fullname) \/ IsMissing(body.email) \/ IsMissing(body.phone)
    \/ body.email.t # "string" \/ body.phone.t # "string"
    \/ body.fullname.t \notin {"string", "object"}
    \/ body.fullname.t = "object" /\ body.fullname.sub # "string"

\* C6: every request whose handler has run has exactly one response, and for
\* a malformed body it is the collect_user_info directive with a normal
\* status.
C6_MalformedRecollected ==
    \A r \in Requests :
        LET q == reqs[r]
        IN  /\ q.pc \in {"done", "crashed"} => q.responses = 1
            /\ (Received(r) /\ Malformed(q.body))
               => /\ q.responses = 1
                  /\ q.response.status = 200
                  /\ q.response.event = "collect_user_info"

\* what the synchronous part of the handler decided for a request
SyncView(q) ==
    [name |-> q.name, email |-> q.email, phone |-> q.phone,
     validated |-> ValidatorsRan(q),
     nameValid |-> q.nameValid, emailValid |-> q.emailValid,
     phoneValid |-> q.phoneValid,
     proceeds |-> Has(q.events, "saveToGoogleSheets"),
     response |-> IF Has(q.events, "saveToGoogleSheets") THEN NoResponse
                  ELSE q.response]

\* the same request with fullname sent as the plain string of its name
\* sub-field
PlainTwin(q) ==
    HandleRequest(q.variant, [q.body EXCEPT !.fullname = Str(q.body.fullname.s)],
                  q.lib, "unused")

StructuredName(f) == f.t = "object" /\ f.sub = "string"

ObjectWithoutName(f) == f.t = "object" /\ f.sub # "string"

\* the first half of C7: {name: s} is handled as the plain string s
SameAsPlain(r) ==
    (Received(r) /\ reqs[r].body.shape = "ok"
     /\ StructuredName(reqs[r].body.fullname))
    => SyncView(reqs[r]) = SyncView(PlainTwin(reqs[r]))

C7_WitnessStructured ==
    \E r \in Requests :
        /\ reqs[r].body.fullname = ObjName(<<" ", "a", " ", "b", " ">>)
        /\ reqs[r].pc = "mailing"

----------------------------------------------------------------------------
(* Properties of the FAQ handler *)

\* the center parameter is a non-empty string that, lower-cased, is not a
\* known center
UnknownCenter(body) ==
    /\ body.shape = "ok"
    /\ body.center.t = "string"
    /\ body.center.s # <<>>
    /\ ToLowerCase(body.center.s) \notin validCenters

\* the center parameter is a string that, lower-cased, is a known center
KnownCenter(body) ==
    /\ body.shape = "ok"
    /\ body.center.t = "string"
    /\ ToLowerCase(body.center.s) \in validCenters

\* no center is supplied: the parameter is absent or empty
NoCenter(body) ==
    body.shape # "ok" \/ body.center \in {Undefined, Null, Str(<<>>)}

\* the service parameter is absent, empty or a string
ServiceLowerable(body) ==
    body.shape # "ok" \/ body.service.t \in {"undefined", "null", "string"}

\* sub occurs in s as a run of consecutive atoms
IsInfix(sub, s) ==
    \E i \in 0..(Len(s) - Len(sub)) : SubSeq(s, i + 1, i + Len(sub)) = sub

\* C8: whatever the intent, the step that receives a request with a non-empty
\* unknown center answers it with the corrective message, calls no
\* fetchCenters and leaves cachedCenters and lastFetchTime as they were.
C8_CenterValidation ==
    [][\A r \in FaqRequests :
          (freqs[r].pc = "idle" /\ freqs'[r].pc # "idle"
           /\ UnknownCenter(freqs'[r].body))
          => /\ freqs'[r].pc = "done"
             /\ freqs'[r].responses = 1
             /\ freqs'[r].response =
                    FaqOk(CorrectiveText(ToLowerCase(freqs'[r].body.center.s)))
             /\ calls'[r] = IdleCall
             /\ cachedCenters' = cachedCenters
             /\ lastFetchTime' = lastFetchTime]_vars

\* C8 for the requests whose service parameter is absent, empty or a string
C8_CenterValidationStringService ==
    [][\A r \in FaqRequests :
          (freqs[r].pc = "idle" /\ freqs'[r].pc # "idle"
           /\ UnknownCenter(freqs'[r].body)
           /\ ServiceLowerable(freqs'[r].body))
          => /\ freqs'[r].pc = "done"
             /\ freqs'[r].responses = 1
             /\ freqs'[r].response =
                    FaqOk(CorrectiveText(ToLowerCase(freqs'[r].body.center.s)))
             /\ calls'[r] = IdleCall
             /\ cachedCenters' = cachedCenters
             /\ lastFetchTime' = lastFetchTime]_vars

\* the response lists the services, the hours and the info link of a center
ListsCenter(text, center) ==
    /\ \A i \in 1..Len(CentersLiteral[center].services) :
          IsInfix(CentersLiteral[center].services[i].name, text)
    /\ Has(text, CentersLiteral[center].hours)
    /\ Has(text, CentersLiteral[center].business_link)
    /\ IsInfix(center, text)

AnsweredCenterInformation(r) ==
    /\ freqs[r].pc = "done"
    /\ IntentOf(freqs[r].body) = "Provide Center Information"

----------------------------------------------------------------------------
(* Properties of the facility cache *)

Started(c) == calls[c].pc # "idle"

Returned(c) == calls[c].pc = "returned"

\* the times at which a refresh completed and wrote lastFetchTime
RefreshTimes == {calls[c].end : c \in {x \in CallIds : Returned(x) /\ calls[x].refreshed}}

\* the call was made, with a cache already filled, within the expiry window
\* that the refresh at time L opened
InWindow(c, L) ==
    /\ Started(c)
    /\ ~calls[c].seen.null
    /\ L <= calls[c].start
    /\ calls[c].start <= L + CACHE_DURATION

\* more than CACHE_DURATION had passed since lastFetchTime when the call was made
MadeAfterExpiry(c) ==
    /\ Started(c)
    /\ ~calls[c].seen.null
    /\ calls[c].start - ToNumber(calls[c].seenLast) > CACHE_DURATION

\* C10 as stated: of any two calls made within one expiry window the second
\* does not refresh and both return the identical object, under every
\* interleaving; a call made after expiry refreshes and updates lastFetchTime.
C10_AsStated ==
    /\ \A L \in RefreshTimes : \A c1 \in CallIds : \A c2 \in CallIds :
          (c1 < c2 /\ InWindow(c1, L) /\ InWindow(c2, L))
          => /\ ~calls[c2].refreshed
             /\ (Returned(c1) /\ Returned(c2))
                => calls[c1].got.id = calls[c2].got.id
    /\ \A c \in CallIds :
          MadeAfterExpiry(c)
          => /\ calls[c].refreshed
             /\ Returned(c) => ToNumber(lastFetchTime) >= calls[c].end

\* C10, amended: a call refreshes exactly when, at the moment it is made,
\* cachedCenters is null or more than CACHE_DURATION has passed since
\* lastFetchTime, also while another call's refresh is pending.  A call that
\* does not refresh returns at once the object cached when it was made, so two
\* such calls return the identical object when no refresh completed between
\* them.  A call that refreshes returns, after the delay, a new object, and
\* lastFetchTime is then no older than its return.
C10_CacheWindow ==
    /\ \A c \in CallIds :
          Started(c)
          => /\ calls[c].refreshed
                <=> (calls[c].seen.null
                     \/ calls[c].start - ToNumber(calls[c].seenLast) > CACHE_DURATION)
             /\ (Returned(c) /\ ~calls[c].refreshed)
                => /\ calls[c].got = calls[c].seen
                   /\ ~calls[c].got.null
                   /\ calls[c].end = calls[c].start
             /\ (Returned(c) /\ calls[c].refreshed)
                => /\ ~calls[c].got.null
                   /\ calls[c].got.id # calls[c].seen.id
                   /\ calls[c].end >= calls[c].start + RefreshDelay
                   /\ ~cachedCenters.null
                   /\ ~lastFetchTime.null
                   /\ lastFetchTime.ms >= calls[c].end
    /\ \A c1 \in CallIds : \A c2 \in CallIds :
          (/\ Returned(c1) /\ Returned(c2)
           /\ ~calls[c1].refreshed /\ ~calls[c2].refreshed
           /\ calls[c1].seen.id = calls[c2].seen.id)
          => calls[c1].got.id = calls[c2].got.id

C10_Witness ==
    \E a \in CallIds : \E b \in CallIds : \E c \in CallIds : \E d \in CallIds :
        /\ a < b /\ b < c /\ c < d
        /\ Returned(a) /\ Returned(b) /\ Returned(c)
        /\ calls[a].refreshed /\ calls[b].refreshed
        /\ calls[b].start < calls[a].end
        /\ ~calls[c].refreshed
        /\ MadeAfterExpiry(d) /\ calls[d].refreshed

\* the fields of a center record and of a service (index.js 36-72)
CenterFields == {"services", "general_booking_link", "business_link", "hours"}

ServiceFields == {"name", "booking_link"}

\* a mapping with all four centers and all their fields
CompleteMapping(data) ==
    /\ DOMAIN data = {Davis, Roseville, Pleasanton, FortCavazos}
    /\ \A k \in DOMAIN data :
          /\ DOMAIN data[k] = CenterFields
          /\ Len(data[k].services) >= 2
          /\ \A i \in 1..Len(data[k].services) :
                /\ DOMAIN data[k].services[i] = ServiceFields
                /\ data[k].services[i].name # <<>>
                /\ data[k].services[i].booking_link # ""
          /\ data[k].general_booking_link # ""
          /\ data[k].business_link # ""
          /\ data[k].hours # ""

\* C11: under every interleaving of calls and refreshes, cachedCenters is
\* null or a complete mapping of the four centers with all their fields, and
\* every call of fetchCenters that has returned has received a non-null
\* complete mapping.
C11_NeverPartial ==
    /\ cachedCenters.null \/ CompleteMapping(cachedCenters.data)
    /\ \A c \in CallIds :
          Returned(c) => ~calls[c].got.null /\ CompleteMapping(calls[c].got.data)

\* two refreshes overlapped, a later call was served from the cache, and all
\* have returned
C11_Witness ==
    \E a \in CallIds : \E b \in CallIds : \E c \in CallIds :
        /\ a < b
        /\ Returned(a) /\ Returned(b) /\ Returned(c)
        /\ calls[a].refreshed /\ calls[b].refreshed /\ ~calls[c].refreshed
        /\ calls[b].start < calls[a].end
        /\ calls[b].end > calls[a].end

----------------------------------------------------------------------------
(* Properties of the rate limiter and of GET /health *)

Min(a, b) == IF a <= b THEN a ELSE b

----------------------------------------------------------------------------
(* Further properties of the FAQ handler *)

\* every booking link of the mapping, service-specific or general
AllBookingLinks ==
    UNION {{CentersLiteral[c].general_booking_link}
           \cup {CentersLiteral[c].services[i].booking_link :
                    i \in 1..Len(CentersLiteral[c].services)} :
           c \in DOMAIN CentersLiteral}

\* the booking links that occur in a response text
LinksIn(text) == {l \in AllBookingLinks : Has(text, l)}

\* a 'Book Appointment' request with a known center and a non-empty string
\* service has been answered
AnsweredBooking(r) ==
    /\ freqs[r].pc = "done"
    /\ IntentOf(freqs[r].body) = "Book Appointment"
    /\ KnownCenter(freqs[r].body)
    /\ freqs[r].body.center.s # <<>>
    /\ freqs[r].body.service.t = "string"
    /\ freqs[r].body.service.s # <<>>

\* C13: 'Book Appointment' with a known center and a service whose
\* lower-cased name is one of that center's service names is answered,
\* whichever template is drawn, with a text that contains that service's
\* booking_link of that center and no other booking link; with a service the
\* center does not offer, the text lists the center's services and contains
\* its general_booking_link and no other booking link.
C13_BookingLinks ==
    \A r \in FaqRequests :
        AnsweredBooking(r)
        => LET q == freqs[r]
               center == ToLowerCase(q.body.center.s)
               service == ToLowerCase(q.body.service.s)
               rec == CentersLiteral[center]
               offered == {i \in 1..Len(rec.services) :
                              rec.services[i].name = service}
           IN  /\ q.response.status = 200
               /\ q.responses = 1
               /\ offered # {}
                  => /\ \A i \in offered :
                           LinksIn(q.response.text) = {rec.services[i].booking_link}
                     /\ IsInfix(service, q.response.text)
                     /\ IsInfix(center, q.response.text)
               /\ offered = {}
                  => /\ LinksIn(q.response.text) = {rec.general_booking_link}
                     /\ \A i \in 1..Len(rec.services) :
                           IsInfix(rec.services[i].name, q.response.text)
               /\ (center = Davis /\ service = WholeBody)
                  => Has(q.response.text,
                         "https://hirefrederick.com/us-cryotherapy-davis/whole-body")

\* davis + whole-body cryotherapy answered with the third template
C13_Witness ==
    \E r \in FaqRequests :
        /\ AnsweredBooking(r)
        /\ ToLowerCase(freqs[r].body.center.s) = Davis
        /\ ToLowerCase(freqs[r].body.service.s) = WholeBody
        /\ freqs[r].k = 3
        /\ freqs[r].response.status = 200

----------------------------------------------------------------------------
(* Properties of the validators *)

DigitsAndPunctuation ==
    {"0", "1", "2", "3", "4", "5", "6", "7", "8", "9",
     "-", ".", ",", "'", "!", "?", "@", "_", "/", "(", ")"}

\* the length of the run of non-white-space characters s starts with
RECURSIVE RunLength(_)
RunLength(s) ==
    IF s = <<>> \/ IsSpace(Head(s)) THEN 0 ELSE 1 + RunLength(Tail(s))

\* s split on runs of white space, the empty pieces dropped
RECURSIVE Tokens(_)
Tokens(s) ==
    IF s = <<>> THEN <<>>
    ELSE IF IsSpace(Head(s)) THEN Tokens(Tail(s))
    ELSE <<SubSeq(s, 1, RunLength(s))>>
         \o Tokens(SubSeq(s, RunLength(s) + 1, Len(s)))

\* C14: isValidName returns false for every non-string value and for every
\* string with a digit or a punctuation character in it; it returns true
\* exactly for the strings that, trimmed, consist of letters (A-Z, a-z) and
\* white space only and split on runs of white space into at least two
\* non-empty tokens, however many.
C14_IsValidName ==
    vout.fn = "isValidName"
    => /\ vin.t # "string" => vout.result = FALSE
       /\ (vin.t = "string"
           /\ \E i \in 1..Len(vin.s) : vin.s[i] \in DigitsAndPunctuation)
          => vout.result = FALSE
       /\ vin.t = "string"
          => (vout.result = TRUE
              <=> LET trimmed == Trim(vin.s)
                  IN  /\ \A i \in 1..Len(trimmed) :
                            trimmed[i] \in Letters \cup WhiteSpace
                      /\ Len(Tokens(trimmed)) >= 2
                      /\ \A j \in 1..Len(Tokens(trimmed)) :
                            Tokens(trimmed)[j] # <<>>)

\* a name of three words, with white space around it, was accepted
C14_Witness ==
    /\ vout.fn = "isValidName"
    /\ vin.t = "string"
    /\ Len(Tokens(vin.s)) >= 3
    /\ vout.result = TRUE

LibThrows == {"parse_throws", "validate_throws"}

\* C15: isValidPhoneNumber returns false for a value that is not a string
\* and whenever parse or isValidNumber of the phone library throws; a request
\* whose phone number makes the library throw is answered once with the
\* invalid-field response (collect_user_info, normal status) that names the
\* phone number, never with status 500, and nothing is saved or mailed for it.
C15_PhoneFailsClosed ==
    /\ vout.fn = "isValidPhoneNumber"
       => ((vin.t # "string" \/ vout.lib \in LibThrows) => vout.result = FALSE)
    /\ \A r \in Requests :
          LET q == reqs[r]
          IN  (ValidatorsRan(q) /\ q.lib \in LibThrows)
              => /\ q.phoneValid = FALSE
                 /\ q.pc = "done"
                 /\ q.responses = 1
                 /\ q.response.status = 200
                 /\ q.response.event = "collect_user_info"
                 /\ Has(q.response.text, PhonePhrase)
                 /\ ~Has(q.events, "saveToGoogleSheets")
                 /\ ~Has(q.events, "throw")
                 /\ RowsOf(r) = {} /\ MailsOf(r) = {}

\* the library threw in isValidNumber on the phone number of a request whose
\* name and email are valid, and isValidPhoneNumber was called with a number
C15_Witness ==
    /\ vout.fn = "isValidPhoneNumber" /\ vin.t = "number"
    /\ \E r \in Requests :
          /\ reqs[r].lib = "validate_throws"
          /\ reqs[r].nameValid /\ reqs[r].emailValid
          /\ reqs[r].pc = "done"

----------------------------------------------------------------------------
(* Temporal properties of the FAQ handler *)

\* the center parameter is absent, empty or a known center
NoInvalidCenter(body) == NoCenter(body) \/ KnownCenter(body)

\* the request has a body and its intent name is none of the five
UnsupportedIntent(body) == body.shape # "noBody" /\ IntentOf(body) \notin Intents

\* every request that waits for fetchCenters is eventually answered
FaqEventuallyAnswered ==
    \A r \in FaqRequests : freqs[r].pc = "fetching" ~> freqs[r].pc = "done"

\* every request is answered exactly once, with a fulfillmentText
FaqAnsweredOnce ==
    /\ FaqEventuallyAnswered
    /\ [](\A r \in FaqRequests :
            /\ freqs[r].pc = "done"
               => freqs[r].responses = 1 /\ freqs[r].response.text # <<>>
            /\ freqs[r].pc # "done" => freqs[r].responses = 0)

\* C16: every request of the FAQ handler is eventually answered, exactly
\* once, with a fulfillmentText; a request whose intent is none of the five
\* supported ones and whose center is not invalid is answered with the fixed
\* fallback text and a normal status.
C16_AnsweredOnceWithFallback ==
    /\ FaqAnsweredOnce
    /\ [](\A r \in FaqRequests :
            (/\ freqs[r].pc = "done"
             /\ UnsupportedIntent(freqs[r].body)
             /\ NoInvalidCenter(freqs[r].body))
            => freqs[r].response = FaqOk(FallbackText))

\* C16 for the requests whose service parameter is absent, empty or a string
C16_StringService ==
    /\ FaqAnsweredOnce
    /\ [](\A r \in FaqRequests :
            (/\ freqs[r].pc = "done"
             /\ UnsupportedIntent(freqs[r].body)
             /\ NoInvalidCenter(freqs[r].body)
             /\ ServiceLowerable(freqs[r].body))
            => freqs[r].response = FaqOk(FallbackText))

----------------------------------------------------------------------------
(* Further properties of the intake handler *)

\* the list of failed-field phrases as it stands in an invalid-field response
ListInResponse(q) == SubSeq(q.response.text, 2, Len(q.response.text) - 1)

EndsWithFullStop(s) == s # <<>> /\ s[Len(s)] = "."

EndsWithSeparator(s) ==
    Len(s) >= 2 /\ s[Len(s) - 1] = "," /\ s[Len(s)] = " "

AnsweredInvalid(r) ==
    /\ reqs[r].pc = "done"
    /\ ValidatorsRan(reqs[r])
    /\ ~(reqs[r].nameValid /\ reqs[r].emailValid /\ reqs[r].phoneValid)

\* C17: in webhook.js and in part_000, for every non-empty set of failing
\* fields, the list of failed-field phrases placed in fulfillmentText ends
\* with '.' and not with the separator ', '.
C17_TrailingSeparatorRemoved ==
    \A r \in Requests :
        AnsweredInvalid(r)
        => /\ EndsWithFullStop(ListInResponse(reqs[r]))
           /\ ~EndsWithSeparator(ListInResponse(reqs[r]))

\* C17 for the handler of webhook.js alone
C17_WebhookVariant ==
    \A r \in Requests :
        (AnsweredInvalid(r) /\ reqs[r].variant = "webhook")
        => /\ EndsWithFullStop(ListInResponse(reqs[r]))
           /\ ~EndsWithSeparator(ListInResponse(reqs[r]))

----------------------------------------------------------------------------
(* Further properties of the facility cache *)

\* call b was made while the refresh of call a was pending
StartedDuringRefresh(a, b) ==
    /\ a # b
    /\ calls[a].refreshed
    /\ Started(b)
    /\ calls[a].start <= calls[b].start
    /\ \/ calls[a].pc = "delay"
       \/ Returned(a) /\ calls[b].seen.id < calls[a].got.id

\* the cache was empty or expired when the call was made
StaleAtStart(c) ==
    \/ calls[c].seen.null
    \/ calls[c].start - ToNumber(calls[c].seenLast) > CACHE_DURATION

\* the calls whose refresh has completed
Refreshers == {c \in CallIds : Returned(c) /\ calls[c].refreshed}

\* the refresh that completed last
LastRefresher ==
    CHOOSE c \in Refreshers : \A d \in Refreshers : calls[d].got.id <= calls[c].got.id

\* C18: a call of fetchCenters made on an empty or expired cache while the
\* refresh of another call is pending performs a refresh of its own; each of
\* the two callers receives a complete mapping, an object of its own; once
\* refreshes have completed, cachedCenters and lastFetchTime are the object
\* and the time written by the one that completed last; and lastFetchTime
\* never decreases.
C18_RefreshRace ==
    /\ [](/\ \A a \in CallIds : \A b \in CallIds :
                (StartedDuringRefresh(a, b) /\ StaleAtStart(b))
                => /\ calls[b].refreshed
                   /\ (Returned(a) /\ Returned(b))
                      => /\ calls[a].got.id # calls[b].got.id
                         /\ ~calls[a].got.null /\ ~calls[b].got.null
                         /\ CompleteMapping(calls[a].got.data)
                         /\ CompleteMapping(calls[b].got.data)
          /\ Refreshers # {}
             => /\ cachedCenters = calls[LastRefresher].got
                /\ lastFetchTime = TimeVal(calls[LastRefresher].end)
                /\ \A d \in Refreshers : calls[d].end <= calls[LastRefresher].end)
    /\ [][ToNumber(lastFetchTime') >= ToNumber(lastFetchTime)]_vars

\* two overlapping refreshes on an empty cache completed at different times
C18_Witness ==
    \E a \in CallIds : \E b \in CallIds :
        /\ StartedDuringRefresh(a, b)
        /\ calls[b].seen.null
        /\ Returned(a) /\ Returned(b)
        /\ calls[a].end < calls[b].end
        /\ cachedCenters = calls[b].got
        /\ lastFetchTime = TimeVal(calls[b].end)

\* a 'Book Appointment' request whose center was supplied and passed the
\* center validation has been answered
AnsweredBookingAtCenter(r) ==
    /\ freqs[r].pc = "done"
    /\ IntentOf(freqs[r].body) = "Book Appointment"
    /\ KnownCenter(freqs[r].body)
    /\ freqs[r].body.center.s # <<>>
    /\ ServiceLowerable(freqs[r].body)

\* C19: the mapping fetchCenters caches and returns has exactly the centers
\* of validCenters as its keys, in every reachable state; a 'Book
\* Appointment' request whose supplied center passed the center validation
\* therefore finds the record of its center and is answered with a normal
\* status, never with the HTTP 500 of the catch block.
C19_ValidCentersAreKeys ==
    /\ ~cachedCenters.null => DOMAIN cachedCenters.data = validCenters
    /\ \A c \in CallIds :
          Returned(c) => DOMAIN calls[c].got.data = validCenters
    /\ \A r \in FaqRequests :
          AnsweredBookingAtCenter(r)
          => /\ ToLowerCase(freqs[r].body.center.s) \in DOMAIN calls[r].got.data
             /\ freqs[r].response.status = 200
             /\ freqs[r].response # FaqError
             /\ freqs[r].responses = 1

\* davis, written with a capital, asked for a service it does not offer
C19_Witness ==
    \E r \in FaqRequests :
        /\ AnsweredBookingAtCenter(r)
        /\ freqs[r].body.center.s # ToLowerCase(freqs[r].body.center.s)
        /\ ToLowerCase(freqs[r].body.center.s) = Davis
        /\ freqs[r].body.service = Str(<<"s", "a", "u", "n", "a">>)
        /\ freqs[r].response.status = 200

\* C20: in every state cachedCenters is non-null exactly when lastFetchTime
\* is, and exactly when a refresh has completed; GET /health answers with
\* cacheStatus 'Not cached' when no refresh has completed yet, also while a
\* first refresh is in its delay, and with 'Last updated: ' and the time of
\* the last refresh in every state after that.
C20_HealthCacheStatus ==
    /\ [](/\ cachedCenters.null <=> lastFetchTime.null
          /\ cachedCenters.null <=> Refreshers = {}
          /\ health # NoHealth => health.status = 200)
    /\ [][health' # health
          => /\ health'.status = 200
             /\ health'.timestamp = now
             /\ Refreshers = {} => health'.cacheStatus = <<"Not cached">>
             /\ Refreshers # {}
                => health'.cacheStatus
                      = <<"Last updated: ", calls[LastRefresher].end>>]_vars

\* /health answered 'Not cached' while the first refresh was in its delay
C20_Witness ==
    /\ health.status = 200
    /\ health.cacheStatus = <<"Not cached">>
    /\ cachedCenters.null
    /\ \E c \in CallIds :
          calls[c].pc = "delay" /\ health.timestamp > calls[c].start

====
